---- MODULE Spec2Model ----
(***************************************************************************)
(* A model of blop/bayesian/dofs.py: the DOF dataclass (__post_init__) and  *)
(* the DOFList collection (construction, indexing, add, subset, activate,   *)
(* deactivate).                                                             *)
(*                                                                          *)
(* Python values are encoded as pairs <<type, n>>: <<"NoneType", 0>> is     *)
(* None, <<"str", n>> is the n-th string literal a caller may pass,         *)
(* <<"uuid", n>> is the string str(uuid.uuid4()) of the n-th call of        *)
(* uuid.uuid4() (a str, different from every other string in use),          *)
(* <<"int", i>> an int, and <<"bool", _>>, <<"float", _>>, <<"slice", _>>   *)
(* values of those types.                                                   *)
(***************************************************************************)
EXTENDS Integers, Sequences, FiniteSets, TLC

VARIABLES
    heap,       \* the DOF objects constructed so far, by object id
    lists,      \* the Python list objects, by id; lists[1] is the default argument of DOFList.__init__
    dofLists,   \* the DOFList objects constructed so far: dofLists[L] is the id of the list L.dofs refers to
    given,      \* given[d]: the arguments DOF object d was constructed with
    nuuid,      \* the number of uuid.uuid4() calls made so far
    last        \* the most recent call: its operation, arguments, exception ("" for none) and result

vars == <<heap, given, lists, dofLists, nuuid, last>>

\* Bounds of the model.
MaxDOFs == 2
MaxLists == 2
MaxListsSmall == 1
MaxLen == 2
MaxUuid == 5

None == <<"NoneType", 0>>
Str(n) == <<"str", n>>
Uuid(n) == <<"uuid", n>>
PyInt(i) == <<"int", i>>
PyBool(b) == <<"bool", IF b THEN 1 ELSE 0>>

\* type(v) is str
IsStr(v) == v[1] \in {"str", "uuid"}

\* ophyd devices: Signal(name=...), SignalRO(name=...) (and its subclasses
\* BrownianMotion, TimeReadback, ConstantReadback), an object without a name
\* attribute, and None (no device).
Signal(name) == [cls |-> "Signal", name |-> name, kind |-> "normal"]
SignalRO(name) == [cls |-> "SignalRO", name |-> name, kind |-> "normal"]
Nameless == [cls |-> "object", name |-> None, kind |-> "normal"]
NoDevice == [cls |-> "NoneType", name |-> None, kind |-> "normal"]

\* hasattr(device, "name")
HasName(device) == device.cls \in {"Signal", "SignalRO"}

\* isinstance(device, SignalRO)
IsSignalRO(device) == device.cls = "SignalRO"

\* The dataclass fields of DOF the operations read or write (description,
\* limits, units and log are stored as given and never read here).
DOF(device, name, read_only, active, tags, latent_group, uuid) ==
    [device |-> device, name |-> name, read_only |-> read_only, active |-> active,
     tags |-> tags, latent_group |-> latent_group, uuid |-> uuid]

\* The arguments of a DOF(...) call.
DOFArgs(device, name, read_only, active, tags, latent_group) ==
    [device |-> device, name |-> name, read_only |-> read_only, active |-> active,
     tags |-> tags, latent_group |-> latent_group]

\* self.name after lines 79-80
PostInitName(device, name, uuid) ==
    IF name = None
    THEN (IF HasName(device) THEN device.name ELSE uuid)
    ELSE name

\* mutant: the dummy device is generated before the name is settled
PostInitDeviceUnnamed(device, name) ==
    IF device = NoDevice THEN Signal(None) ELSE device

\* self.device after lines 82-83
PostInitDevice(device, name) ==
    IF device = NoDevice THEN Signal(name) ELSE device

\* mutant: the read_only test is inverted
PostInitRaisesInverted(device, read_only) ==
    read_only /\ IsSignalRO(device)

\* the condition of the raise of lines 85-88
PostInitRaises(device, read_only) ==
    ~read_only /\ IsSignalRO(device)

\* mutant: a constant default key instead of a fresh one
PostInitLatentGroupShared(latent_group) ==
    IF latent_group = None THEN Str(0) ELSE latent_group

\* self.latent_group after lines 90-91; the uuid is the call's second one
PostInitLatentGroup(latent_group) ==
    IF latent_group = None THEN Uuid(nuuid + 2) ELSE latent_group

\* DOF(device=..., name=..., ...): the dataclass __init__ followed by __post_init__
__post_init__(device, name, read_only, active, tags, latent_group) ==
    LET uuid == Uuid(nuuid + 1)
        name1 == PostInitName(device, name, uuid)
        device1 == PostInitDevice(device, name1)
        args == DOFArgs(device, name, read_only, active, tags, latent_group)
    IN  /\ IF PostInitRaises(device1, read_only)
           THEN /\ nuuid' = nuuid + 1
                /\ UNCHANGED <<heap, given>>
                /\ last' = [op |-> "DOF", exc |-> "ValueError", self |-> 0, arg |-> args, ret |-> 0]
           ELSE /\ nuuid' = nuuid + (IF latent_group = None THEN 2 ELSE 1)
                /\ heap' = Append(heap,
                       DOF([device1 EXCEPT !.kind = "hinted"], name1, read_only, active, tags,
                           PostInitLatentGroup(latent_group), uuid))
                /\ given' = Append(given, args)
                /\ last' = [op |-> "DOF", exc |-> "", self |-> 0, arg |-> args, ret |-> Len(heap) + 1]
        /\ UNCHANGED <<lists, dofLists>>

Init ==
    /\ heap = <<>>
    /\ given = <<>>
    /\ lists = << <<>> >>
    /\ dofLists = <<>>
    /\ nuuid = 0
    /\ last = [op |-> "", exc |-> "", self |-> 0, arg |-> 0, ret |-> 0]

\* ---------------------------------------------------------------- DOFList

\* the list a DOFList's self.dofs refers to
Dofs(L) == lists[dofLists[L]]

\* [dof.name for dof in dofs], line 22
dof_names(dofs) == [i \in 1..Len(dofs) |-> heap[dofs[i]].name]

\* unique_dof_names[counts > 1], lines 25-26
duplicate_dof_names(dofs) ==
    {n \in {dof_names(dofs)[i] : i \in 1..Len(dofs)} :
        Cardinality({i \in 1..Len(dofs) : dof_names(dofs)[i] = n}) > 1}

\* mutant: counts > 2 instead of counts > 1
ValidateCountsOverTwo(dofs) ==
    \A n \in {dof_names(dofs)[i] : i \in 1..Len(dofs)} :
        Cardinality({i \in 1..Len(dofs) : dof_names(dofs)[i] = n}) <= 2

\* _validate_dofs(dofs) returns (TRUE) or raises ValueError (FALSE)
_validate_dofs(dofs) == duplicate_dof_names(dofs) = {}

\* DOFList.names
names(L) == [i \in 1..Len(Dofs(L)) |-> heap[Dofs(L)[i]].name]

\* DOFList.device_names
device_names(L) == [i \in 1..Len(Dofs(L)) |-> heap[Dofs(L)[i]].device.name]

\* DOFList(dofs): l is the list object passed as dofs, either list 1 (the default
\* argument, one object shared by all calls without an argument) or a new list
\* with the elements contents; self.dofs refers to that same object.
__init__(l, contents) ==
    LET dofs == IF l <= Len(lists) THEN lists[l] ELSE contents
    IN  /\ IF _validate_dofs(dofs)
           THEN /\ lists' = IF l <= Len(lists) THEN lists ELSE Append(lists, contents)
                /\ dofLists' = Append(dofLists, l)
                /\ last' = [op |-> "DOFList", exc |-> "", self |-> 0, arg |-> dofs,
                            ret |-> Len(dofLists) + 1]
           ELSE /\ UNCHANGED <<lists, dofLists>>
                /\ last' = [op |-> "DOFList", exc |-> "ValueError", self |-> 0, arg |-> dofs,
                            ret |-> 0]
        /\ UNCHANGED <<heap, given, nuuid>>

\* list.index(x): the first position of x, 0 when x is not in the list (ValueError)
Index(seq, x) ==
    IF \E k \in 1..Len(seq) : seq[k] = x
    THEN CHOOSE k \in 1..Len(seq) : seq[k] = x /\ \A j \in 1..(k - 1) : seq[j] # x
    ELSE 0

\* mutant: a missing name raises KeyError, as a dict lookup would
GetItemExcKeyError(L, i) ==
    IF i[1] = "int"
    THEN (IF (IF i[2] < 0 THEN i[2] + Len(Dofs(L)) ELSE i[2]) \in 0..(Len(Dofs(L)) - 1)
          THEN "" ELSE "IndexError")
    ELSE IF IsStr(i)
    THEN (IF Index(names(L), i) = 0 THEN "KeyError" ELSE "")
    ELSE "ValueError"

\* the exception of L[i], "" when it returns
GetItemExc(L, i) ==
    IF i[1] = "int"
    THEN (IF (IF i[2] < 0 THEN i[2] + Len(Dofs(L)) ELSE i[2]) \in 0..(Len(Dofs(L)) - 1)
          THEN "" ELSE "IndexError")
    ELSE IF IsStr(i)
    THEN (IF Index(names(L), i) = 0 THEN "ValueError" ELSE "")
    ELSE "ValueError"

\* mutant: an int index counts from the end of the list
GetItemRetFromEnd(L, i) ==
    IF GetItemExc(L, i) # "" THEN 0
    ELSE IF i[1] = "int"
    THEN Dofs(L)[Len(Dofs(L)) - (IF i[2] < 0 THEN i[2] + Len(Dofs(L)) ELSE i[2])]
    ELSE Dofs(L)[Index(names(L), i)]

\* the DOF object L[i] returns (0 when it raises); Python's list index is 0-based
\* and counts from the end when negative
GetItemRet(L, i) ==
    IF GetItemExc(L, i) # "" THEN 0
    ELSE IF i[1] = "int"
    THEN Dofs(L)[(IF i[2] < 0 THEN i[2] + Len(Dofs(L)) ELSE i[2]) + 1]
    ELSE Dofs(L)[Index(names(L), i)]

\* DOFList.__getitem__
__getitem__(L, i) ==
    /\ last' = [op |-> "getitem", exc |-> GetItemExc(L, i), self |-> L, arg |-> i,
                ret |-> GetItemRet(L, i)]
    /\ UNCHANGED <<heap, given, lists, dofLists, nuuid>>

\* mutant: the DOF is appended before the list is validated
AddBeforeValidate(L, dof) ==
    /\ lists' = [lists EXCEPT ![dofLists[L]] = Append(@, dof)]
    /\ last' = [op |-> "add",
                exc |-> IF _validate_dofs(Append(Dofs(L), dof)) THEN "" ELSE "ValueError",
                self |-> L, arg |-> dof, ret |-> 0]
    /\ UNCHANGED <<heap, given, dofLists, nuuid>>

\* DOFList.add
add(L, dof) ==
    /\ IF _validate_dofs(Append(Dofs(L), dof))
       THEN /\ lists' = [lists EXCEPT ![dofLists[L]] = Append(@, dof)]
            /\ last' = [op |-> "add", exc |-> "", self |-> L, arg |-> dof, ret |-> 0]
       ELSE /\ lists' = lists
            /\ last' = [op |-> "add", exc |-> "ValueError", self |-> L, arg |-> dof, ret |-> 0]
    /\ UNCHANGED <<heap, given, dofLists, nuuid>>

\* DOFList._dof_read_only_mask
_dof_read_only_mask(L, read_only) ==
    [i \in 1..Len(Dofs(L)) |->
        IF read_only # None THEN PyBool(heap[Dofs(L)[i]].read_only) = read_only ELSE TRUE]

\* DOFList._dof_active_mask
_dof_active_mask(L, active) ==
    [i \in 1..Len(Dofs(L)) |->
        IF active # None THEN PyBool(heap[Dofs(L)[i]].active) = active ELSE TRUE]

\* DOFList._dof_tags_mask raises TypeError: with tags non-empty the element
\* expression evaluates dof["tags"] for the first dof, and a DOF (a dataclass,
\* no __getitem__) is not subscriptable.
TagsMaskRaises(L, tags) == tags # {} /\ Len(Dofs(L)) > 0

\* DOFList._dof_tags_mask, when it returns: every element is True
_dof_tags_mask(L, tags) == [i \in 1..Len(Dofs(L)) |-> TRUE]

\* DOFList._dof_mask
_dof_mask(L, active, read_only, tags) ==
    [i \in 1..Len(Dofs(L)) |->
        /\ _dof_read_only_mask(L, read_only)[i]
        /\ _dof_active_mask(L, active)[i]
        /\ _dof_tags_mask(L, tags)[i]]

\* [dof for dof, m in zip(dofs, mask) if m]
RECURSIVE Masked(_, _)
Masked(dofs, mask) ==
    IF dofs = <<>> THEN <<>>
    ELSE (IF Head(mask) THEN <<Head(dofs)>> ELSE <<>>) \o Masked(Tail(dofs), Tail(mask))

\* DOFList.subset: a new list object, handed to DOFList(...)
subset(L, active, read_only, tags) ==
    LET args == [active |-> active, read_only |-> read_only, tags |-> tags]
        dofs == Masked(Dofs(L), _dof_mask(L, active, read_only, tags))
    IN  /\ IF TagsMaskRaises(L, tags)
           THEN /\ UNCHANGED <<lists, dofLists>>
                /\ last' = [op |-> "subset", exc |-> "TypeError", self |-> L, arg |-> args, ret |-> 0]
           ELSE IF ~_validate_dofs(dofs)
           THEN /\ UNCHANGED <<lists, dofLists>>
                /\ last' = [op |-> "subset", exc |-> "ValueError", self |-> L, arg |-> args, ret |-> 0]
           ELSE /\ lists' = Append(lists, dofs)
                /\ dofLists' = Append(dofLists, Len(lists) + 1)
                /\ last' = [op |-> "subset", exc |-> "", self |-> L, arg |-> args,
                            ret |-> Len(dofLists) + 1]
        /\ UNCHANGED <<heap, given, nuuid>>

\* DOFList.activate: the lookup of self._subset_dofs raises AttributeError
\* (neither DOFList nor Sequence defines it) before any DOF is touched.
activate(L, read_only, active, tags) ==
    /\ last' = [op |-> "activate", exc |-> "AttributeError", self |-> L,
                arg |-> [active |-> active, read_only |-> read_only, tags |-> tags], ret |-> 0]
    /\ UNCHANGED <<heap, given, lists, dofLists, nuuid>>

\* DOFList.deactivate: as activate
deactivate(L, read_only, active, tags) ==
    /\ last' = [op |-> "deactivate", exc |-> "AttributeError", self |-> L,
                arg |-> [active |-> active, read_only |-> read_only, tags |-> tags], ret |-> 0]
    /\ UNCHANGED <<heap, given, lists, dofLists, nuuid>>

\* ------------------------------------------------------------ specifications

\* the sequences over S of length at most n
SeqsUpTo(S, n) == UNION {[1..k -> S] : k \in 0..n}

\* room for one more DOF(...) call: it makes up to two uuids
CanConstructDOF == Len(heap) < MaxDOFs /\ nuuid + 2 <= MaxUuid

\* the list literals a caller passes to DOFList(...): any DOFs, repeats included
ListLiterals == SeqsUpTo(1..Len(heap), MaxLen)

\* the keys tried on L[...]: ints (negative and out of range too), strings
\* (names in use and not in use), and a bool, a float and a slice
Keys ==
    {PyInt(k) : k \in {0 - MaxLen - 2, 0 - 1} \cup 0..(MaxLen + 1)}
        \cup {Str(1), Str(3)}
        \cup {heap[d].name : d \in 1..Len(heap)}
        \cup {PyBool(TRUE), <<"float", 1>>, <<"slice", 0>>}

\* Spec: device-less DOFs that differ in name, collected in DOFLists that are
\* built (without an argument, or from a list literal) and added to.
NewDOF ==
    /\ CanConstructDOF
    /\ \E name \in {Str(1), Str(2)} :
           __post_init__(NoDevice, name, FALSE, TRUE, {}, None)

NewDOFListDefault ==
    /\ Len(dofLists) < MaxLists
    /\ __init__(1, <<>>)

NewDOFList ==
    /\ Len(dofLists) < MaxLists
    /\ \E contents \in ListLiterals : __init__(Len(lists) + 1, contents)

Add ==
    \E L \in 1..Len(dofLists), dof \in 1..Len(heap) : add(L, dof)

Next == NewDOF \/ NewDOFListDefault \/ NewDOFList \/ Add

Spec == Init /\ [][Next]_vars

\* SpecIndex: the same DOFs, collected in a DOFList that is built, added to
\* and indexed.
NewDOFListDefaultSmall ==
    /\ Len(dofLists) < MaxListsSmall
    /\ __init__(1, <<>>)

NewDOFListSmall ==
    /\ Len(dofLists) < MaxListsSmall
    /\ \E contents \in ListLiterals : __init__(Len(lists) + 1, contents)

GetItem ==
    \E L \in 1..Len(dofLists), i \in Keys : __getitem__(L, i)

NextIndex == NewDOF \/ NewDOFListDefaultSmall \/ NewDOFListSmall \/ Add \/ GetItem

SpecIndex == Init /\ [][NextIndex]_vars

\* SpecDOF: DOF construction over writable and read-only devices, with and
\* without a read_only flag and a latent_group (a caller's own key, or the key
\* read from a DOF constructed before).
LatentGroups == {None, Str(4)} \cup {heap[d].latent_group : d \in 1..Len(heap)}

NewDOFAny ==
    /\ CanConstructDOF
    /\ \E device \in {NoDevice, Signal(Str(3)), SignalRO(Str(3))},
          read_only \in BOOLEAN, latent_group \in LatentGroups :
           __post_init__(device, None, read_only, TRUE, {}, latent_group)

NextDOF == NewDOFAny

SpecDOF == Init /\ [][NextDOF]_vars

\* SpecDev: DOFs with and without a device and a name, collected in DOFLists.
NewDOFDev ==
    /\ CanConstructDOF
    /\ \E device \in {NoDevice, Signal(Str(1)), Nameless}, name \in {None, Str(2)} :
           __post_init__(device, name, FALSE, TRUE, {}, None)

NextDev == NewDOFDev \/ NewDOFListSmall

SpecDev == Init /\ [][NextDev]_vars

\* SpecFilter: DOFs that differ in read_only, active and tags, collected in
\* DOFLists that are subset, activated and deactivated.
Flags == {None, PyBool(TRUE), PyBool(FALSE)}
TagFilters == {{}, {1}}

NewDOFFlagged ==
    /\ CanConstructDOF
    /\ \E read_only \in BOOLEAN, active \in BOOLEAN, tags \in {{}, {1}} :
           __post_init__(NoDevice, None, read_only, active, tags, None)

Subset ==
    /\ Len(dofLists) < MaxLists
    /\ \E L \in 1..Len(dofLists), active \in Flags, read_only \in Flags, tags \in TagFilters :
           subset(L, active, read_only, tags)

Activate ==
    \E L \in 1..Len(dofLists), active \in Flags, read_only \in Flags, tags \in TagFilters :
        activate(L, read_only, active, tags)

Deactivate ==
    \E L \in 1..Len(dofLists), active \in Flags, read_only \in Flags, tags \in TagFilters :
        deactivate(L, read_only, active, tags)

NextFilter == NewDOFFlagged \/ NewDOFList \/ Subset \/ Activate \/ Deactivate

SpecFilter == Init /\ [][NextFilter]_vars

\* -------------------------------------------------------------------- claims

\* the DOF objects whose name is n, among those of a list of DOFs
Named(dofs, n) == {k \in 1..Len(dofs) : heap[dofs[k]].name = n}

\* C1: no two DOFs held in the same DOFList have the same name: for all
\* positions i # j of the list, dofs[i].name # dofs[j].name.
C1_NamesUnique ==
    \A L \in 1..Len(dofLists) :
        \A i, j \in 1..Len(Dofs(L)) :
            i # j => heap[Dofs(L)[i]].name # heap[Dofs(L)[j]].name

\* C1's case: an add has grown a DOFList to two DOFs.
C1_Witness ==
    /\ last.op = "add" /\ last.exc = ""
    /\ Len(Dofs(last.self)) >= 2

\* C2: rejecting a duplicate is atomic. DOFList(dofs) with two DOFs of the
\* same name raises ValueError and makes no DOFList (and no list changes);
\* add(dof) with a name already in the list raises ValueError and leaves every
\* list, DOF and DOFList as it was; add(dof) with a new name appends dof at the
\* end of the list of self and changes no other object.
C2_AtomicReject ==
    [][
        /\ (last'.op = "DOFList" /\ \E n \in {heap[last'.arg[k]].name : k \in 1..Len(last'.arg)} :
                                       Cardinality(Named(last'.arg, n)) > 1)
            => /\ last'.exc = "ValueError"
               /\ UNCHANGED <<heap, given, lists, dofLists, nuuid>>
        /\ (last'.op = "add" /\ Named(Dofs(last'.self), heap[last'.arg].name) # {})
            => /\ last'.exc = "ValueError"
               /\ UNCHANGED <<heap, given, lists, dofLists, nuuid>>
        /\ (last'.op = "add" /\ Named(Dofs(last'.self), heap[last'.arg].name) = {})
            => /\ last'.exc = ""
               /\ Len(lists') = Len(lists)
               /\ \A l \in 1..Len(lists) :
                      lists'[l] = IF l = dofLists[last'.self]
                                  THEN lists[l] \o <<last'.arg>>
                                  ELSE lists[l]
               /\ UNCHANGED <<heap, given, dofLists, nuuid>>
      ]_vars

\* C2's case: an add of a DOF whose name is already in a list of two DOFs has
\* just been rejected.
C2_Witness ==
    /\ last.op = "add" /\ last.exc = "ValueError"
    /\ Len(Dofs(last.self)) = 2
    /\ Named(Dofs(last.self), heap[last.arg].name) # {}

\* C3: L[n] for a string n in L.names returns the one DOF of L whose name is
\* n, the DOF at position L.names.index(n); L[i] for an int 0 <= i < len(L)
\* returns the i-th DOF, and L[L[i].name] is that same DOF.
C3_IndexByName ==
    last.op = "getitem" =>
        LET L == last.self
            i == last.arg
        IN  /\ (IsStr(i) /\ \E k \in 1..Len(Dofs(L)) : names(L)[k] = i)
                => /\ last.exc = ""
                   /\ heap[last.ret].name = i
                   /\ \E k \in 1..Len(Dofs(L)) :
                          /\ names(L)[k] = i
                          /\ \A j \in 1..Len(Dofs(L)) : names(L)[j] = i => j = k
                          /\ last.ret = Dofs(L)[k]
            /\ (i[1] = "int" /\ i[2] \in 0..(Len(Dofs(L)) - 1))
                => /\ last.exc = ""
                   /\ last.ret = Dofs(L)[i[2] + 1]
                   /\ GetItemExc(L, heap[last.ret].name) = ""
                   /\ GetItemRet(L, heap[last.ret].name) = last.ret

\* C3's case: the second DOF of a list of two has been looked up by its name.
C3_Witness ==
    /\ last.op = "getitem" /\ last.exc = ""
    /\ IsStr(last.arg)
    /\ Len(Dofs(last.self)) = 2
    /\ last.ret = Dofs(last.self)[2]

\* C7: L[n] for a string n that is no name of L raises ValueError, L[k] for a
\* key that is neither an int nor a str (a slice, a bool, a float) raises ValueError,
\* and neither changes anything.
C7_InvalidLookup ==
    [][(/\ last'.op = "getitem"
        /\ \/ IsStr(last'.arg) /\ Named(Dofs(last'.self), last'.arg) = {}
           \/ last'.arg[1] \notin {"int", "str", "uuid"})
        => /\ last'.exc = "ValueError"
           /\ last'.ret = 0
           /\ UNCHANGED <<heap, given, lists, dofLists, nuuid>>
      ]_vars

\* C7's case: a lookup by a string that is no name of a non-empty list has
\* just raised.
C7_Witness ==
    /\ last.op = "getitem" /\ last.exc = "ValueError"
    /\ IsStr(last.arg)
    /\ Len(Dofs(last.self)) >= 1

\* C5: DOF(device=<a SignalRO>, read_only=False) raises ValueError and
\* DOF(device=<a SignalRO>, read_only=True) succeeds, so every constructed DOF
\* whose device is read-only has read_only = True.
C5_ReadOnlyDevice ==
    /\ \A d \in 1..Len(heap) : IsSignalRO(heap[d].device) => heap[d].read_only
    /\ (last.op = "DOF" /\ IsSignalRO(last.arg.device))
        => IF last.arg.read_only
           THEN /\ last.exc = ""
                /\ last.ret = Len(heap)
                /\ IsSignalRO(heap[last.ret].device)
           ELSE last.exc = "ValueError" /\ last.ret = 0

\* C5's case: a DOF on a read-only device exists and a construction with
\* read_only=False on a read-only device has just raised.
C5_Witness ==
    /\ last.op = "DOF" /\ last.exc = "ValueError"
    /\ \E d \in 1..Len(heap) : IsSignalRO(heap[d].device)

\* C8: every constructed DOF has a device; a DOF constructed without a name
\* is named after its device when that has a name and after its own uuid
\* (which no other DOF has) otherwise; a DOF constructed without a device has a
\* generated Signal named as the DOF, so that device_names = names for every
\* DOFList of DOFs constructed without a device.
C8_Defaulting ==
    /\ \A d \in 1..Len(heap) :
          /\ heap[d].device.cls # "NoneType"
          /\ given[d].name = None
              => heap[d].name = IF given[d].device.cls \in {"Signal", "SignalRO"}
                                THEN given[d].device.name
                                ELSE heap[d].uuid
          /\ given[d].name # None => heap[d].name = given[d].name
          /\ \A e \in 1..Len(heap) : e # d => heap[e].uuid # heap[d].uuid
          /\ given[d].device.cls = "NoneType"
              => heap[d].device.cls = "Signal" /\ heap[d].device.name = heap[d].name
    /\ \A L \in 1..Len(dofLists) :
          (\A k \in 1..Len(Dofs(L)) : given[Dofs(L)[k]].device.cls = "NoneType")
              => device_names(L) = names(L)

\* C8's case: a DOFList of two DOFs constructed without a device, one of them
\* without a name too.
C8_Witness ==
    \E L \in 1..Len(dofLists) :
        /\ Len(Dofs(L)) = 2
        /\ \A k \in 1..2 : given[Dofs(L)[k]].device.cls = "NoneType"
        /\ \E k \in 1..2 : given[Dofs(L)[k]].name = None

\* C9 as stated: a DOF constructed without a latent_group has a key no other
\* DOF constructed without one has, an explicit latent_group is kept, and two
\* DOFs share a latent_group only if the same key was passed explicitly to
\* both.
C9_SharedOnlyIfPassedToBoth ==
    \A d, e \in 1..Len(heap) :
        /\ given[d].latent_group # None => heap[d].latent_group = given[d].latent_group
        /\ (d # e /\ heap[d].latent_group = heap[e].latent_group)
            => /\ given[d].latent_group # None
               /\ given[d].latent_group = given[e].latent_group

\* C9, amended: a DOF constructed without a latent_group has a key that is
\* not None and that no DOF constructed before has, so two DOFs constructed
\* without one never share a key; an explicit latent_group is kept; two DOFs
\* share a latent_group only if that key was passed explicitly to the later of
\* them.
C9_SharedOnlyIfPassed ==
    \A d, e \in 1..Len(heap) :
        /\ heap[d].latent_group # None
        /\ given[d].latent_group # None => heap[d].latent_group = given[d].latent_group
        /\ (d # e /\ given[d].latent_group = None /\ given[e].latent_group = None)
            => heap[d].latent_group # heap[e].latent_group
        /\ (e < d /\ heap[d].latent_group = heap[e].latent_group)
            => given[d].latent_group = heap[e].latent_group

\* C9's case: a DOF has just been passed the key generated for an earlier
\* DOF, which was constructed without a latent_group.
C9_Witness ==
    /\ last.op = "DOF" /\ last.exc = ""
    /\ \E e \in 1..(Len(heap) - 1) :
          /\ given[e].latent_group = None
          /\ given[Len(heap)].latent_group = heap[e].latent_group

\* whether a DOF passes the filters of subset, activate and deactivate
Matches(dof, active, read_only, tags) ==
    /\ active = None \/ PyBool(dof.active) = active
    /\ read_only = None \/ PyBool(dof.read_only) = read_only
    /\ tags = {} \/ dof.tags \cap tags # {}

\* the DOFs of a list that pass the filters, in the order of the list
RECURSIVE Matching(_, _, _, _)
Matching(dofs, active, read_only, tags) ==
    IF dofs = <<>> THEN <<>>
    ELSE (IF Matches(heap[Head(dofs)], active, read_only, tags) THEN <<Head(dofs)>> ELSE <<>>)
             \o Matching(Tail(dofs), active, read_only, tags)

\* C4: subset(active, read_only, tags) returns a DOFList of exactly the DOFs
\* of the original that pass the filters, in their order, and changes neither
\* the original list nor any DOF.
C4_Subset ==
    [][last'.op = "subset"
        => /\ last'.exc = ""
           /\ last'.ret \in 1..Len(dofLists')
           /\ lists'[dofLists'[last'.ret]]
                  = Matching(Dofs(last'.self), last'.arg.active, last'.arg.read_only,
                             last'.arg.tags)
           /\ lists'[dofLists'[last'.self]] = Dofs(last'.self)
           /\ heap' = heap
      ]_vars

\* C6: activate(read_only, active, tags) and deactivate(...) complete without
\* error, set active to True (to False) on every DOF of the list that passes
\* the filters, and leave every other DOF and every list as they were.
C6_Activate ==
    [][last'.op \in {"activate", "deactivate"}
        => /\ last'.exc = ""
           /\ Len(heap') = Len(heap)
           /\ \A d \in 1..Len(heap) :
                  heap'[d] = IF /\ \E k \in 1..Len(Dofs(last'.self)) : Dofs(last'.self)[k] = d
                                /\ Matches(heap[d], last'.arg.active, last'.arg.read_only,
                                           last'.arg.tags)
                             THEN [heap[d] EXCEPT !.active = (last'.op = "activate")]
                             ELSE heap[d]
           /\ UNCHANGED <<lists, dofLists>>
      ]_vars

====
